---------------------------- MODULE Spec2Model ----------------------------
(***************************************************************************)
(* Model of the risk scoring engine of app/core/risk_engine.py.            *)
(*                                                                         *)
(* The engine is a library of pure functions.  Each function is an         *)
(* operator computed as the code computes it; the state machine is a       *)
(* caller that invokes one engine function at a time on inputs drawn from  *)
(* bounded sets and then returns.                                          *)
(*                                                                         *)
(* Python floats are modelled as exact rationals [num, den] (den > 0, in   *)
(* lowest terms): the model does not carry binary rounding noise.          *)
(* Optional values are <<>> (None) or <<v>>.  exc is the exception a call  *)
(* raises (None when it returns): each engine function has an operator     *)
(* that walks its partial operations (a comparison or subtraction on       *)
(* None, an attribute of None, a missing dictionary key, math.sqrt of a    *)
(* negative number, a division by zero) under the guards the code puts in  *)
(* front of them.                                                          *)
(***************************************************************************)
EXTENDS Integers, Sequences, FiniteSets, TLC

VARIABLES op, args, ret, exc, pc, inp, frame, out

callVars == <<op, args, ret, exc>>
requestVars == <<pc, inp, frame, out>>
vars == <<op, args, ret, exc, pc, inp, frame, out>>

---------------------------------------------------------------------------
(* Bounds of the input sets.                                               *)

LevelScoreBound == 8     \* level_from_score is tried on -8..8 and on 100
MaxAqi == 7              \* AQI inputs -1..MaxAqi (1..5 are the valid ones)
MaxHeatIndexC == 56      \* heat index inputs, whole degrees C either side of 0
MaxConds == 2            \* longest list of condition labels
MaxTempF == 118          \* air temperature inputs, whole degrees F from 60
MaxHumidity == 104       \* humidity inputs, whole percent from -5
NReq == 2                \* requests in flight at once

(* Program constants. *)
MaxScore == 5            \* the 0-5 internal score scale

---------------------------------------------------------------------------
(* Optional values and rationals.                                          *)

None == <<>>
Some(v) == <<v>>
IsNone(o) == o = <<>>
Val(o) == o[1]

Abs(n) == IF n < 0 THEN -n ELSE n

RECURSIVE GCD(_, _)
GCD(a, b) == IF b = 0 THEN a ELSE GCD(b, a % b)

R(n, d) == LET g == GCD(Abs(n), d) IN [num |-> n \div g, den |-> d \div g]
FromInt(n) == [num |-> n, den |-> 1]

RAdd(x, y) == R(x.num * y.den + y.num * x.den, x.den * y.den)
RSub(x, y) == R(x.num * y.den - y.num * x.den, x.den * y.den)
RMul(x, y) == R(x.num * y.num, x.den * y.den)
\* x / y for y # 0
RDiv(x, y) == IF y.num > 0 THEN R(x.num * y.den, x.den * y.num)
                           ELSE R(-(x.num * y.den), x.den * (-y.num))
RLt(x, y) == x.num * y.den < y.num * x.den
RLe(x, y) == x.num * y.den <= y.num * x.den
RIsZero(x) == x.num = 0

\* Python's max(a, b) and min(a, b) on floats: the first argument wins ties
RMax(x, y) == IF RLt(x, y) THEN y ELSE x
RMin(x, y) == IF RLt(y, x) THEN y ELSE x

Floor(x) == x.num \div x.den

\* Python's round(x): nearest integer, ties to the even one
round(x) ==
    LET f == Floor(x)
        r2 == 2 * (x.num - f * x.den)
    IN  IF r2 < x.den THEN f
        ELSE IF r2 > x.den THEN f + 1
        ELSE IF f % 2 = 0 THEN f ELSE f + 1

\* Python's round(x, 1): nearest multiple of 0.1
round1(x) == R(round(RMul(x, FromInt(10))), 10)

Max(a, b) == IF a > b THEN a ELSE b
Min(a, b) == IF a < b THEN a ELSE b

\* the first exception of a sequence of steps, None if none raises
RECURSIVE FirstExc(_)
FirstExc(steps) ==
    IF Len(steps) = 0 THEN None
    ELSE IF Head(steps) # None THEN Head(steps)
    ELSE FirstExc(Tail(steps))

\* o > x, o >= x, o - x, o / x on an optional number o
NumberExc(o) == IF IsNone(o) THEN Some("TypeError") ELSE None
\* o.attribute on an optional record o
AttributeExc(o) == IF IsNone(o) THEN Some("AttributeError") ELSE None
\* math.sqrt(x)
SqrtExc(x) == IF x.num < 0 THEN Some("ValueError") ELSE None
\* x / y
DivExc(y) == IF RIsZero(y) THEN Some("ZeroDivisionError") ELSE None

---------------------------------------------------------------------------
(* Fixed-point decimals with 8 decimal places, for the heat index          *)
(* regression: <<a, b, c>> is a + b/10^4 + c/10^8, normalised when b and c *)
(* are in 0..9999.  The regression's coefficients have 8 decimals, so on   *)
(* whole degrees Fahrenheit and whole percent every term is exact.         *)

Limb == 10000

DNorm(x) ==
    LET b == x[2] + (x[3] \div Limb)
    IN  << x[1] + (b \div Limb), b % Limb, x[3] % Limb >>
DFromInt(n) == << n, 0, 0 >>
DAdd(x, y) == DNorm(<< x[1] + y[1], x[2] + y[2], x[3] + y[3] >>)
DNeg(x) == DNorm(<< -x[1], -x[2], -x[3] >>)
DSub(x, y) == DAdd(x, DNeg(y))
\* k * x for a small integer k
DScale(k, x) == DNorm(<< k * x[1], k * x[2], k * x[3] >>)
DLt(x, y) ==
    \/ x[1] < y[1]
    \/ (x[1] = y[1] /\ x[2] < y[2])
    \/ (x[1] = y[1] /\ x[2] = y[2] /\ x[3] < y[3])
DLe(x, y) == x = y \/ DLt(x, y)
\* (chi/10^4 + clo/10^8) * m for an integer m
DTerm(chi, clo, m) ==
    LET mh == m \div Limb
        ml == m % Limb
    IN  DNorm(<< chi * mh, chi * ml + clo * mh, clo * ml >>)

RECURSIVE ISqrtBetween(_, _, _)
\* the r in lo..hi with r*r <= n < (r+1)*(r+1)
ISqrtBetween(n, lo, hi) ==
    IF lo = hi THEN lo
    ELSE LET mid == (lo + hi + 1) \div 2
         IN  IF mid * mid <= n THEN ISqrtBetween(n, mid, hi)
             ELSE ISqrtBetween(n, lo, mid - 1)

\* math.sqrt(x) for 0 <= x <= 1, cut to 4 decimals, times 10^4
sqrt4(x) == ISqrtBetween((x.num * Limb * Limb) \div x.den, 0, Limb)

---------------------------------------------------------------------------
(* compute_heat_index_c                                                    *)

\* temp_c * 9 / 5 + 32
T_of(temp_c) == RAdd(RDiv(RMul(temp_c, FromInt(9)), FromInt(5)), FromInt(32))

\* the T T R term subtracted instead of added
rothfusz_sign_slip(T, R_) ==
    DAdd(DAdd(DAdd(DAdd(DAdd(DAdd(DAdd(DAdd(
        DNeg(DTerm(423790, 0, 1)),
        DTerm(20490, 1523, T)),
        DTerm(101433, 3127, R_)),
        DNeg(DTerm(2247, 5541, T * R_))),
        DNeg(DTerm(68, 3783, T * T))),
        DNeg(DTerm(548, 1717, R_ * R_))),
        DNeg(DTerm(12, 2874, T * T * R_))),
        DTerm(8, 5282, T * R_ * R_)),
        DNeg(DTerm(0, 199, T * T * R_ * R_)))

\* the NOAA / Rothfusz regression on whole T (Fahrenheit) and R (percent)
rothfusz(T, R_) ==
    DAdd(DAdd(DAdd(DAdd(DAdd(DAdd(DAdd(DAdd(
        DNeg(DTerm(423790, 0, 1)),                 \* -42.379
        DTerm(20490, 1523, T)),                    \* + 2.04901523 T
        DTerm(101433, 3127, R_)),                  \* + 10.14333127 R
        DNeg(DTerm(2247, 5541, T * R_))),          \* - 0.22475541 T R
        DNeg(DTerm(68, 3783, T * T))),             \* - 0.00683783 T T
        DNeg(DTerm(548, 1717, R_ * R_))),          \* - 0.05481717 R R
        DTerm(12, 2874, T * T * R_)),              \* + 0.00122874 T T R
        DTerm(8, 5282, T * R_ * R_)),              \* + 0.00085282 T R R
        DNeg(DTerm(0, 199, T * T * R_ * R_)))      \* - 0.00000199 T T R R

low_humidity_band_wide(T, R_) == R_ < 13 /\ 80 <= T /\ T <= 113

\* R < 13 and 80 <= T <= 112
low_humidity_band(T, R_) == R_ < 13 /\ 80 <= T /\ T <= 112

\* R > 85 and 80 <= T <= 87 (tried only outside the low humidity band)
high_humidity_band(T, R_) == R_ > 85 /\ 80 <= T /\ T <= 87

\* (17 - abs(T - 95)) / 17, the argument of math.sqrt
sqrt_argument(T) == R(17 - Abs(T - 95), 17)

\* ((13 - R) / 4) * math.sqrt((17 - abs(T - 95)) / 17), the root cut to 4 decimals
low_humidity_adjustment(T, R_) ==
    DNorm(<< 0, 0, (13 - R_) * sqrt4(sqrt_argument(T)) * (Limb \div 4) >>)

\* ((R - 85) / 10) * ((87 - T) / 5)
high_humidity_adjustment(T, R_) ==
    DNorm(<< 0, (R_ - 85) * (87 - T) * (Limb \div 50), 0 >>)

\* the shortcut taken at 80 F too
heat_index_f_shortcut_at_80(T, R_) ==
    IF T <= 80 THEN DFromInt(T)
    ELSE IF low_humidity_band(T, R_)
         THEN DSub(rothfusz(T, R_), low_humidity_adjustment(T, R_))
    ELSE IF high_humidity_band(T, R_)
         THEN DAdd(rothfusz(T, R_), high_humidity_adjustment(T, R_))
    ELSE rothfusz(T, R_)

\* hi_f for whole T and R
heat_index_f(T, R_) ==
    IF T < 80 THEN DFromInt(T)
    ELSE IF low_humidity_band(T, R_)
         THEN DSub(rothfusz(T, R_), low_humidity_adjustment(T, R_))
    ELSE IF high_humidity_band(T, R_)
         THEN DAdd(rothfusz(T, R_), high_humidity_adjustment(T, R_))
    ELSE rothfusz(T, R_)

\* The result is (hi_f - 32) * 5 / 9; the model returns nine times it,
\* (hi_f - 32) * 5, which is a decimal with 8 places.
compute_heat_index_c(temp_c, humidity) ==
    DScale(5, DSub(heat_index_f(T_of(temp_c).num, humidity.num), DFromInt(32)))

compute_heat_index_c_exc(temp_c, humidity) ==
    LET T == T_of(temp_c).num
    IN  IF T >= 80 /\ low_humidity_band(T, humidity.num)
        THEN SqrtExc(sqrt_argument(T)) ELSE None

---------------------------------------------------------------------------
(* score_air_pollution                                                     *)

base_map(aqi) ==
    CASE aqi = 1 -> 0
      [] aqi = 2 -> 1
      [] aqi = 3 -> 2
      [] aqi = 4 -> 4
      [] aqi = 5 -> 5
      [] OTHER -> 0

pm25_bump_dropped_cap(score, pm25) ==
    IF ~IsNone(pm25) /\ RLt(FromInt(35), Val(pm25)) THEN score + 1 ELSE score

pm25_bump(score, pm25) ==
    IF ~IsNone(pm25) /\ RLt(FromInt(35), Val(pm25))
    THEN Min(MaxScore, score + 1) ELSE score

o3_bump(score, o3) ==
    IF ~IsNone(o3) /\ RLt(FromInt(100), Val(o3))
    THEN Min(MaxScore, score + 1) ELSE score

score_air_pollution(aqi, pm25, o3) ==
    o3_bump(pm25_bump(base_map(aqi), pm25), o3)

\* base_map.get(aqi, 0): a lookup with a default raises for no key
base_map_exc(aqi) == None

\* "x is not None and x > limit": the comparison runs only on a present x
guarded_compare_exc(x) == IF ~IsNone(x) THEN NumberExc(x) ELSE None

score_air_pollution_exc(aqi, pm25, o3) ==
    FirstExc(<< base_map_exc(aqi), guarded_compare_exc(pm25), guarded_compare_exc(o3) >>)

---------------------------------------------------------------------------
(* score_heat                                                              *)

\* heat_index_c * 9 / 5 + 32
c_to_f(c) == RAdd(RDiv(RMul(c, FromInt(9)), FromInt(5)), FromInt(32))

score_heat_exclusive_breakpoints(heat_index_c) ==
    LET hi_f == c_to_f(heat_index_c)
    IN  IF RLe(hi_f, FromInt(80)) THEN 0
        ELSE IF RLe(hi_f, FromInt(90)) THEN 2
        ELSE IF RLe(hi_f, FromInt(103)) THEN 3
        ELSE IF RLe(hi_f, FromInt(125)) THEN 4
        ELSE 5

score_heat(heat_index_c) ==
    LET hi_f == c_to_f(heat_index_c)
    IN  IF RLt(hi_f, FromInt(80)) THEN 0
        ELSE IF RLe(FromInt(80), hi_f) /\ RLt(hi_f, FromInt(90)) THEN 2
        ELSE IF RLe(FromInt(90), hi_f) /\ RLt(hi_f, FromInt(103)) THEN 3
        ELSE IF RLe(FromInt(103), hi_f) /\ RLt(hi_f, FromInt(125)) THEN 4
        ELSE 5

---------------------------------------------------------------------------
(* level_from_score                                                        *)

level_from_score_low_below_one(score) ==
    IF score < 1 THEN "Low"
    ELSE IF score = 2 THEN "Moderate"
    ELSE IF score = 3 THEN "High"
    ELSE "Very High"

level_from_score(score) ==
    IF score <= 1 THEN "Low"
    ELSE IF score = 2 THEN "Moderate"
    ELSE IF score = 3 THEN "High"
    ELSE "Very High"

RiskScore(level, score) == [level |-> level, score |-> score]

---------------------------------------------------------------------------
(* compute_dehydration_risk                                                *)

\* s = 1, then the three heat index thresholds in ascending order
threshold_score(heat_index_c) ==
    LET s0 == 1
        s1 == IF RLe(FromInt(27), heat_index_c) THEN 2 ELSE s0
        s2 == IF RLe(FromInt(32), heat_index_c) THEN 3 ELSE s1
        s3 == IF RLe(FromInt(38), heat_index_c) THEN 4 ELSE s2
    IN  s3

humidity_bump_above_70(s, humidity) ==
    IF RLt(FromInt(70), humidity) /\ s < 4 THEN s + 1 ELSE s

humidity_bump(s, humidity) ==
    IF RLe(FromInt(70), humidity) /\ s < 4 THEN s + 1 ELSE s

age_bump(s, age) ==
    IF ~IsNone(age) /\ Val(age) >= 65 /\ s < 4 THEN s + 1 ELSE s

\* a scale starting at 0, as the air and heat scorers have
compute_dehydration_risk_from_zero(temperature_c, humidity, heat_index_c, age) ==
    LET s == age_bump(humidity_bump(threshold_score(heat_index_c), humidity), age)
        clamped == Max(0, Min(s - 1, 4))
    IN  RiskScore(level_from_score(clamped), clamped)

compute_dehydration_risk(temperature_c, humidity, heat_index_c, age) ==
    LET s == age_bump(humidity_bump(threshold_score(heat_index_c), humidity), age)
        clamped == Max(1, Min(s, 4))
    IN  RiskScore(level_from_score(clamped), clamped)

\* "age is not None and age >= 65"
compute_dehydration_risk_exc(temperature_c, humidity, heat_index_c, age) ==
    guarded_compare_exc(age)

---------------------------------------------------------------------------
(* compute_overall_risk                                                    *)

weighted_score(asthma_score, heat_score, dehydration_score) ==
    RAdd(RAdd(RMul(FromInt(asthma_score), R(3, 10)),
              RMul(FromInt(heat_score), R(35, 100))),
         RMul(FromInt(dehydration_score), R(35, 100)))

compute_overall_risk_truncating(asthma_score, heat_score, dehydration_score) ==
    LET avg_score == Floor(weighted_score(asthma_score, heat_score, dehydration_score))
        clamped == Max(1, Min(avg_score, 4))
    IN  RiskScore(level_from_score(clamped), clamped)

compute_overall_risk(asthma_score, heat_score, dehydration_score) ==
    LET avg_score == round(weighted_score(asthma_score, heat_score, dehydration_score))
        clamped == Max(1, Min(avg_score, 4))
    IN  RiskScore(level_from_score(clamped), clamped)

---------------------------------------------------------------------------
(* combine_scores                                                          *)

\* Strings are sequences of one-character strings.
UpperCase == <<"A","B","C","D","E","F","G","H","I","J","K","L","M",
               "N","O","P","Q","R","S","T","U","V","W","X","Y","Z">>
LowerCase == <<"a","b","c","d","e","f","g","h","i","j","k","l","m",
               "n","o","p","q","r","s","t","u","v","w","x","y","z">>

\* str.lower() of one character
lower_char(c) ==
    IF \E i \in 1 .. Len(UpperCase) : UpperCase[i] = c
    THEN LowerCase[CHOOSE i \in 1 .. Len(UpperCase) : UpperCase[i] = c]
    ELSE c

\* c.lower()
lower(str) == [i \in 1 .. Len(str) |-> lower_char(str[i])]

lower_all_case_sensitive(conditions) == conditions

\* [c.lower() for c in profile.conditions]
lower_all(conditions) == [i \in 1 .. Len(conditions) |-> lower(conditions[i])]

\* sep.join(strs)
RECURSIVE join(_, _)
join(sep, strs) ==
    IF Len(strs) = 0 THEN <<>>
    ELSE IF Len(strs) = 1 THEN strs[1]
    ELSE strs[1] \o sep \o join(sep, Tail(strs))

\* needle in hay
contains(hay, needle) ==
    \E i \in 0 .. (Len(hay) - Len(needle)) :
        SubSeq(hay, i + 1, i + Len(needle)) = needle

resp_keywords ==
    << <<"a","s","t","h","m","a">>,
       <<"c","o","p","d">>,
       <<"b","r","o","n","c","h","i","t","i","s">>,
       <<"r","e","s","p","i","r","a","t","o","r","y">> >>

cardio_keywords ==
    << <<"h","e","a","r","t">>,
       <<"c","a","r","d","i","o">>,
       <<"h","y","p","e","r","t","e","n","s","i","o","n">>,
       <<"c","a","r","d","i","o","v","a","s","c","u","l","a","r">> >>

\* any(k in " ".join(lower) for k in keywords)
any_keyword(keywords, lowered) ==
    LET joined == join(<<" ">>, lowered)
    IN  \E i \in 1 .. Len(keywords) : contains(joined, keywords[i])

\* the age combine_scores passes on: None without a profile
profile_age(profile) == IF IsNone(profile) THEN None ELSE Val(profile).age

at_risk(profile) ==
    IF IsNone(profile) THEN FALSE
    ELSE \/ (~IsNone(Val(profile).age) /\ Val(Val(profile).age) >= 65)
         \/ any_keyword(resp_keywords \o cardio_keywords,
                        lower_all(Val(profile).conditions))

\* the adjusted score capped at 4
sensitivity_capped_at_4(score, atRisk) == IF atRisk THEN Min(4, score + 1) ELSE score

\* if at_risk: score = min(5, score + 1)
sensitivity(score, atRisk) == IF atRisk THEN Min(MaxScore, score + 1) ELSE score

Scores(asthma_risk, heat_risk, dehydration_risk, overall_risk) ==
    [asthma_risk |-> asthma_risk, heat_risk |-> heat_risk,
     dehydration_risk |-> dehydration_risk, overall_risk |-> overall_risk]

\* the level classified before the profile adjustment
combine_scores_stale_level(air_score, heat_score, temperature_c, humidity, heat_index_c, profile) ==
    LET atRisk == at_risk(profile)
        asthma_score == sensitivity(air_score, atRisk)
        heat_score_final == sensitivity(heat_score, atRisk)
        asthma_risk == RiskScore(level_from_score(air_score), asthma_score)
        heat_risk == RiskScore(level_from_score(heat_score), heat_score_final)
        dehydration_risk ==
            compute_dehydration_risk(temperature_c, humidity, heat_index_c, profile_age(profile))
        overall_risk ==
            compute_overall_risk(asthma_risk.score, heat_risk.score, dehydration_risk.score)
    IN  Scores(asthma_risk, heat_risk, dehydration_risk, overall_risk)

\* an at-risk profile treated as an older adult by the dehydration scorer
combine_scores_at_risk_as_age(air_score, heat_score, temperature_c, humidity, heat_index_c, profile) ==
    LET atRisk == at_risk(profile)
        asthma_score == sensitivity(air_score, atRisk)
        heat_score_final == sensitivity(heat_score, atRisk)
        asthma_risk == RiskScore(level_from_score(asthma_score), asthma_score)
        heat_risk == RiskScore(level_from_score(heat_score_final), heat_score_final)
        dehydration_risk ==
            compute_dehydration_risk(temperature_c, humidity, heat_index_c,
                                     IF atRisk THEN Some(65) ELSE profile_age(profile))
        overall_risk ==
            compute_overall_risk(asthma_risk.score, heat_risk.score, dehydration_risk.score)
    IN  Scores(asthma_risk, heat_risk, dehydration_risk, overall_risk)

combine_scores(air_score, heat_score, temperature_c, humidity, heat_index_c, profile) ==
    LET atRisk == at_risk(profile)
        asthma_score == sensitivity(air_score, atRisk)
        heat_score_final == sensitivity(heat_score, atRisk)
        asthma_risk == RiskScore(level_from_score(asthma_score), asthma_score)
        heat_risk == RiskScore(level_from_score(heat_score_final), heat_score_final)
        dehydration_risk ==
            compute_dehydration_risk(temperature_c, humidity, heat_index_c, profile_age(profile))
        overall_risk ==
            compute_overall_risk(asthma_risk.score, heat_risk.score, dehydration_risk.score)
    IN  Scores(asthma_risk, heat_risk, dehydration_risk, overall_risk)

\* "if profile:" guards profile.age, the age comparison and profile.conditions
combine_scores_exc(air_score, heat_score, temperature_c, humidity, heat_index_c, profile) ==
    FirstExc(<<
        IF ~IsNone(profile)
        THEN FirstExc(<< AttributeExc(profile),
                         guarded_compare_exc(Val(profile).age) >>)
        ELSE None,
        compute_dehydration_risk_exc(temperature_c, humidity, heat_index_c,
                                     profile_age(profile)) >>)

---------------------------------------------------------------------------
(* build_contributing_factors                                              *)

clamp01(x) == RMax(FromInt(0), RMin(FromInt(1), x))

\* "x or 0.0" on an optional number
or_zero(x) == IF IsNone(x) \/ RIsZero(Val(x)) THEN FromInt(0) ELSE Val(x)

or_one_unguarded(total) == total

\* "total or 1.0"
or_one(total) == IF RIsZero(total) THEN FromInt(1) ELSE total

\* "profile.age and profile.age >= 65": None and 0 are falsy
age_65(age) == ~IsNone(age) /\ Val(age) # 0 /\ Val(age) >= 65

\* 0.2, or 1.0 for a profile with one of the keywords or aged 65 or more
profile_signal(keywords, profile) ==
    IF /\ ~IsNone(profile)
       /\ \/ any_keyword(keywords, lower_all(Val(profile).conditions))
          \/ age_65(Val(profile).age)
    THEN FromInt(1) ELSE R(2, 10)

asthma_signals(raw_air, profile) ==
    << clamp01(RDiv(or_zero(raw_air.pm25), FromInt(60))),
       clamp01(RDiv(or_zero(raw_air.o3), FromInt(150))),
       profile_signal(resp_keywords, profile) >>

heat_signals(raw_weather, profile) ==
    << clamp01(RDiv(RSub(raw_weather.heat_index_c, FromInt(27)), FromInt(40 - 27))),
       clamp01(RDiv(RSub(raw_weather.humidity, FromInt(40)), FromInt(50))),
       profile_signal(cardio_keywords, profile) >>

\* an absent age taken as 65
dehydration_age_default_65(profile) ==
    IF ~IsNone(profile) /\ ~IsNone(Val(profile).age) THEN Val(Val(profile).age) ELSE 65

\* profile.age if profile and profile.age is not None else 30
dehydration_age(profile) ==
    IF ~IsNone(profile) /\ ~IsNone(Val(profile).age) THEN Val(Val(profile).age) ELSE 30

dehydration_signals(raw_weather, profile) ==
    << clamp01(RDiv(RSub(raw_weather.heat_index_c, FromInt(27)), FromInt(40 - 27))),
       clamp01(RDiv(RSub(raw_weather.humidity, FromInt(50)), FromInt(40))),
       clamp01(RDiv(FromInt(dehydration_age(profile) - 40), FromInt(30))) >>

\* s_1 + s_2 + s_3 or 1.0
total_of(signals) == or_one(RAdd(RAdd(signals[1], signals[2]), signals[3]))

percentage_truncated(signal, total) ==
    R(Floor(RMul(RMul(RDiv(signal, total), FromInt(100)), FromInt(10))), 10)

\* round(signal / total * 100, 1)
percentage(signal, total) == round1(RMul(RDiv(signal, total), FromInt(100)))

FactorContribution(factor, pct) == [factor |-> factor, percentage |-> pct]

factor_list(names, signals) ==
    LET total == total_of(signals)
    IN  [i \in 1 .. 3 |-> FactorContribution(names[i], percentage(signals[i], total))]

ContributingFactors(asthma, heat, dehydration) ==
    [asthma |-> asthma, heat |-> heat, dehydration |-> dehydration]

\* the profile factor of the asthma dimension taken from the asthma score
build_contributing_factors_reading_scores(raw_weather, raw_air, profile, scores) ==
    ContributingFactors(
        factor_list(<<"PM2.5", "Ozone (O3)", "Profile (asthma/age)">>,
                    [asthma_signals(raw_air, profile) EXCEPT
                        ![3] = IF scores.asthma_risk.score >= 4
                               THEN FromInt(1) ELSE R(2, 10)]),
        factor_list(<<"Heat Index", "Humidity", "Profile (age/heart/resp.)">>,
                    heat_signals(raw_weather, profile)),
        factor_list(<<"Heat Index", "Humidity", "Age (65+)">>,
                    dehydration_signals(raw_weather, profile)))

build_contributing_factors(raw_weather, raw_air, profile, scores) ==
    ContributingFactors(
        factor_list(<<"PM2.5", "Ozone (O3)", "Profile (asthma/age)">>,
                    asthma_signals(raw_air, profile)),
        factor_list(<<"Heat Index", "Humidity", "Profile (age/heart/resp.)">>,
                    heat_signals(raw_weather, profile)),
        factor_list(<<"Heat Index", "Humidity", "Age (65+)">>,
                    dehydration_signals(raw_weather, profile)))

\* "if profile:" guards profile.conditions and profile.age; "profile.age and"
\* guards the age comparison
profile_signal_exc(profile) ==
    IF ~IsNone(profile)
    THEN FirstExc(<< AttributeExc(profile),
                     IF ~IsNone(Val(profile).age) /\ Val(Val(profile).age) # 0
                     THEN NumberExc(Val(profile).age) ELSE None >>)
    ELSE None

\* the three divisions by the dimension's total
factor_list_exc(signals) == DivExc(total_of(signals))

build_contributing_factors_exc(raw_weather, raw_air, profile, scores) ==
    FirstExc(<<
        profile_signal_exc(profile),
        factor_list_exc(asthma_signals(raw_air, profile)),
        profile_signal_exc(profile),
        factor_list_exc(heat_signals(raw_weather, profile)),
        \* "profile and profile.age is not None" guards profile.age
        IF ~IsNone(profile) THEN AttributeExc(profile) ELSE None,
        factor_list_exc(dehydration_signals(raw_weather, profile)) >>)

---------------------------------------------------------------------------
(* Input sets.                                                             *)

LevelScores == (-LevelScoreBound .. LevelScoreBound) \cup {100}
AqiInputs == -1 .. MaxAqi
\* PM2.5 around the 35 threshold and ozone around the 100 threshold, in halves
PM25Inputs == {None} \cup {Some(R(n, 2)) : n \in 66 .. 74} \cup {Some(FromInt(n)) : n \in {-1, 0, 50}}
O3Inputs == {None} \cup {Some(R(n, 2)) : n \in 196 .. 204} \cup {Some(FromInt(n)) : n \in {-1, 0, 150}}
\* heat index in ninths of a degree C (every Fahrenheit breakpoint is k/9 C)
\* and in tenths of a degree C
HeatIndexFine ==
    {R(n, 9) : n \in (-9 * MaxHeatIndexC) .. (9 * MaxHeatIndexC)}
    \cup {R(n, 10) : n \in (-10 * MaxHeatIndexC) .. (10 * MaxHeatIndexC)}

\* heat index in whole degrees C, and just either side of 27, 32 and 38
HeatIndexCoarse ==
    {FromInt(n) : n \in (-MaxHeatIndexC) .. MaxHeatIndexC}
    \cup {R(n, 10) : n \in {269, 271, 319, 321, 379, 381}}
TemperatureInputs == {FromInt(20), FromInt(35)}
\* relative humidity, with values outside 0..100 and either side of 70
HumidityInputs ==
    {FromInt(n) : n \in {-5, 0, 40, 50, 69, 70, 71, 75, 90, 100, 105}}
    \cup {R(139, 2), R(141, 2)}
AgeInputs == {None} \cup {Some(a) : a \in {0, 30, 64, 65, 66, 70, 90}}
ScoreInputs == 0 .. MaxScore

\* condition labels: "Asthmatic", "HEART", "ast", "hma"
Labels ==
    { <<"A","s","t","h","m","a","t","i","c">>,
      <<"H","E","A","R","T">>,
      <<"a","s","t">>,
      <<"h","m","a">> }
CondLists == UNION {[1 .. n -> Labels] : n \in 0 .. MaxConds}
ProfileAges == {None} \cup {Some(a) : a \in {64, 65}}
Profiles ==
    {None} \cup {Some([age |-> a, conditions |-> c]) : a \in ProfileAges, c \in CondLists}
CombineHeatIndex == {FromInt(n) : n \in {20, 27, 33, 38}}
CombineHumidity == {FromInt(n) : n \in {60, 70}}

\* air temperatures at whole degrees Fahrenheit, in Celsius
TempCInputs == {R(5 * (f - 32), 9) : f \in 60 .. MaxTempF}
WholeHumidity == {FromInt(n) : n \in -5 .. MaxHumidity}
\* inputs of the factor breakdown
FactorPM25 == {None} \cup {Some(FromInt(n)) : n \in {0, 12, 45, 90}}
FactorO3 == {None} \cup {Some(FromInt(n)) : n \in {50, 150, 200}}
FactorHeatIndex == {FromInt(20), R(59, 2), FromInt(33), FromInt(45)}
FactorHumidity == {FromInt(n) : n \in {-5, 40, 65, 90, 105}}
FactorProfiles ==
    {None} \cup {Some([age |-> a, conditions |-> c]) :
                    a \in {None} \cup {Some(n) : n \in {0, 50, 65}},
                    c \in { <<>>,
                            << <<"A","s","t","h","m","a","t","i","c">> >>,
                            << <<"H","E","A","R","T">> >> }}
RawWeather(temperature_c, humidity, heat_index_c) ==
    [temperature_c |-> temperature_c, humidity |-> humidity, heat_index_c |-> heat_index_c]
RawAirQuality(aqi, pm25, pm10, o3) ==
    [aqi |-> aqi, pm25 |-> pm25, pm10 |-> pm10, o3 |-> o3]

\* requests in flight and what each of them asks
Requests == 1 .. NReq
RequestProfiles ==
    { None,
      Some([age |-> Some(70),
            conditions |-> << <<"A","s","t","h","m","a","t","i","c">> >>]) }
RequestInputs ==
    [air_score : {2, MaxScore},
     heat_score : {3},
     raw_weather : {RawWeather(FromInt(30), FromInt(60), FromInt(20))},
     raw_air : {RawAirQuality(3, Some(FromInt(12)), None, Some(FromInt(50)))},
     profile : RequestProfiles]

---------------------------------------------------------------------------
(* The caller: one engine function per call.                               *)

Init ==
    /\ op = "idle"
    /\ args = <<>>
    /\ ret = <<>>
    /\ exc = None
    /\ pc = [r \in Requests |-> "idle"]
    /\ inp = [r \in Requests |-> <<>>]
    /\ frame = [r \in Requests |-> <<>>]
    /\ out = [r \in Requests |-> <<>>]

CallLevelFromScore ==
    /\ op = "idle"
    /\ UNCHANGED requestVars
    /\ \E score \in LevelScores :
        /\ op' = "level_from_score"
        /\ args' = [score |-> score]
        /\ exc' = None
        /\ ret' = level_from_score(score)

CallComputeHeatIndexC ==
    /\ op = "idle"
    /\ UNCHANGED requestVars
    /\ \E t \in TempCInputs, h \in WholeHumidity :
        /\ op' = "compute_heat_index_c"
        /\ args' = [temp_c |-> t, humidity |-> h]
        /\ exc' = compute_heat_index_c_exc(t, h)
        /\ ret' = IF exc' = None THEN compute_heat_index_c(t, h) ELSE <<>>

CallScoreAirPollution ==
    /\ op = "idle"
    /\ UNCHANGED requestVars
    /\ \E aqi \in AqiInputs, pm25 \in PM25Inputs, o3 \in O3Inputs :
        /\ op' = "score_air_pollution"
        /\ args' = [aqi |-> aqi, pm25 |-> pm25, o3 |-> o3]
        /\ exc' = score_air_pollution_exc(aqi, pm25, o3)
        /\ ret' = IF exc' = None THEN score_air_pollution(aqi, pm25, o3) ELSE <<>>

CallScoreHeat ==
    /\ op = "idle"
    /\ UNCHANGED requestVars
    /\ \E hi \in HeatIndexFine :
        /\ op' = "score_heat"
        /\ args' = [heat_index_c |-> hi]
        /\ exc' = None
        /\ ret' = score_heat(hi)

CallComputeDehydrationRisk ==
    /\ op = "idle"
    /\ UNCHANGED requestVars
    /\ \E t \in TemperatureInputs, h \in HumidityInputs,
          hi \in HeatIndexCoarse, age \in AgeInputs :
        /\ op' = "compute_dehydration_risk"
        /\ args' = [temperature_c |-> t, humidity |-> h, heat_index_c |-> hi, age |-> age]
        /\ exc' = compute_dehydration_risk_exc(t, h, hi, age)
        /\ ret' = IF exc' = None THEN compute_dehydration_risk(t, h, hi, age) ELSE <<>>

CallComputeOverallRisk ==
    /\ op = "idle"
    /\ UNCHANGED requestVars
    /\ \E a \in ScoreInputs, h \in ScoreInputs, d \in ScoreInputs :
        /\ op' = "compute_overall_risk"
        /\ args' = [asthma_score |-> a, heat_score |-> h, dehydration_score |-> d]
        /\ exc' = None
        /\ ret' = compute_overall_risk(a, h, d)

CallCombineScores ==
    /\ op = "idle"
    /\ UNCHANGED requestVars
    /\ \E a \in ScoreInputs, h \in ScoreInputs, t \in {FromInt(35)},
          hum \in CombineHumidity, hi \in CombineHeatIndex, p \in Profiles :
        /\ op' = "combine_scores"
        /\ args' = [air_score |-> a, heat_score |-> h, temperature_c |-> t,
                    humidity |-> hum, heat_index_c |-> hi, profile |-> p]
        /\ exc' = combine_scores_exc(a, h, t, hum, hi, p)
        /\ ret' = IF exc' = None THEN combine_scores(a, h, t, hum, hi, p) ELSE <<>>

CallBuildContributingFactors ==
    /\ op = "idle"
    /\ UNCHANGED requestVars
    /\ \E hum \in FactorHumidity, hi \in FactorHeatIndex, pm25 \in FactorPM25,
          o3 \in FactorO3, p \in FactorProfiles, a \in {0, MaxScore} :
        LET raw_weather == RawWeather(FromInt(30), hum, hi)
            raw_air == RawAirQuality(3, pm25, None, o3)
            scores == combine_scores(a, a, FromInt(30), hum, hi, p)
        IN  /\ op' = "build_contributing_factors"
            /\ args' = [raw_weather |-> raw_weather, raw_air |-> raw_air,
                        profile |-> p, scores |-> scores]
            /\ exc' = build_contributing_factors_exc(raw_weather, raw_air, p, scores)
            /\ ret' = IF exc' = None
                      THEN build_contributing_factors(raw_weather, raw_air, p, scores)
                      ELSE <<>>

Return ==
    /\ op # "idle"
    /\ UNCHANGED requestVars
    /\ op' = "idle"
    /\ args' = <<>>
    /\ ret' = <<>>
    /\ exc' = None

Next ==
    \/ CallComputeHeatIndexC
    \/ CallLevelFromScore
    \/ CallScoreAirPollution
    \/ CallScoreHeat
    \/ CallComputeDehydrationRisk
    \/ CallComputeOverallRisk
    \/ CallCombineScores
    \/ CallBuildContributingFactors
    \/ Return

Spec == Init /\ [][Next]_vars

---------------------------------------------------------------------------
(* Requests in flight together: each one runs combine_scores statement by  *)
(* statement, then build_contributing_factors, interleaved with the        *)
(* others.                                                                 *)

\* every request on the one set of locals
frame_shared(r) == 1

\* the locals of combine_scores belong to the invocation
frame_of(r) == r

\* scores = combine_scores(air_score, heat_score_val, ..., profile=req.profile)
ReceiveRequest(r) ==
    /\ pc[r] = "idle"
    /\ \E i \in RequestInputs : inp' = [inp EXCEPT ![r] = i]
    /\ pc' = [pc EXCEPT ![r] = "locals"]
    /\ UNCHANGED <<frame, out, callVars>>

\* asthma_score = air_score; heat_score_final = heat_score; age = None; at_risk = False
InitLocals(r) ==
    /\ pc[r] = "locals"
    /\ frame' = [frame EXCEPT ![frame_of(r)] =
                    [asthma_score |-> inp[r].air_score,
                     heat_score_final |-> inp[r].heat_score,
                     age |-> None,
                     at_risk |-> FALSE]]
    /\ pc' = [pc EXCEPT ![r] = "profile"]
    /\ UNCHANGED <<inp, out, callVars>>

\* if profile: age = profile.age; at_risk from the age and the conditions
InspectProfile(r) ==
    /\ pc[r] = "profile"
    /\ frame' = [frame EXCEPT ![frame_of(r)] =
                    [@ EXCEPT !.age = profile_age(inp[r].profile),
                              !.at_risk = @ \/ at_risk(inp[r].profile)]]
    /\ pc' = [pc EXCEPT ![r] = "adjust"]
    /\ UNCHANGED <<inp, out, callVars>>

\* if at_risk: both scores + 1, at most 5
AdjustScores(r) ==
    /\ pc[r] = "adjust"
    /\ frame' = [frame EXCEPT ![frame_of(r)] =
                    [@ EXCEPT !.asthma_score = sensitivity(@, frame[frame_of(r)].at_risk),
                              !.heat_score_final =
                                  sensitivity(@, frame[frame_of(r)].at_risk)]]
    /\ pc' = [pc EXCEPT ![r] = "scores"]
    /\ UNCHANGED <<inp, out, callVars>>

\* the four RiskScores from the locals, returned as Scores
BuildScores(r) ==
    /\ pc[r] = "scores"
    /\ LET f == frame[frame_of(r)]
           asthma_risk == RiskScore(level_from_score(f.asthma_score), f.asthma_score)
           heat_risk == RiskScore(level_from_score(f.heat_score_final), f.heat_score_final)
           dehydration_risk ==
               compute_dehydration_risk(inp[r].raw_weather.temperature_c,
                                        inp[r].raw_weather.humidity,
                                        inp[r].raw_weather.heat_index_c, f.age)
           overall_risk ==
               compute_overall_risk(asthma_risk.score, heat_risk.score,
                                    dehydration_risk.score)
       IN  out' = [out EXCEPT ![r] =
                     [scores |-> Scores(asthma_risk, heat_risk, dehydration_risk,
                                        overall_risk),
                      contributing_factors |-> None]]
    /\ pc' = [pc EXCEPT ![r] = "factors"]
    /\ UNCHANGED <<inp, frame, callVars>>

\* contributing_factors = build_contributing_factors(..., scores=scores)
BuildFactors(r) ==
    /\ pc[r] = "factors"
    /\ out' = [out EXCEPT ![r].contributing_factors =
                  Some(build_contributing_factors(inp[r].raw_weather, inp[r].raw_air,
                                                  inp[r].profile, out[r].scores))]
    /\ pc' = [pc EXCEPT ![r] = "done"]
    /\ UNCHANGED <<inp, frame, callVars>>

\* return response
Respond(r) ==
    /\ pc[r] = "done"
    /\ pc' = [pc EXCEPT ![r] = "idle"]
    /\ inp' = [inp EXCEPT ![r] = <<>>]
    /\ out' = [out EXCEPT ![r] = <<>>]
    /\ UNCHANGED <<frame, callVars>>

NextRequests ==
    \E r \in Requests :
        \/ ReceiveRequest(r)
        \/ InitLocals(r)
        \/ InspectProfile(r)
        \/ AdjustScores(r)
        \/ BuildScores(r)
        \/ BuildFactors(r)
        \/ Respond(r)

SpecRequests == Init /\ [][NextRequests]_vars

---------------------------------------------------------------------------
(* C1: level_from_score is total over the integers: "Low" for every score  *)
(* <= 1 (negative ones too), "Moderate" for 2, "High" for 3, "Very High"   *)
(* for every score >= 4 (100 too); so the level never decreases when the   *)
(* score increases, under Low < Moderate < High < Very High.               *)

LevelRank(level) ==
    CASE level = "Low" -> 1
      [] level = "Moderate" -> 2
      [] level = "High" -> 3
      [] level = "Very High" -> 4

C1_LevelFromScore ==
    op = "level_from_score" =>
        /\ ret \in {"Low", "Moderate", "High", "Very High"}
        /\ (args.score <= 1) = (ret = "Low")
        /\ (args.score = 2) = (ret = "Moderate")
        /\ (args.score = 3) = (ret = "High")
        /\ (args.score >= 4) = (ret = "Very High")
        /\ \A below \in LevelScores :
              below <= args.score =>
                  LevelRank(level_from_score(below)) <= LevelRank(ret)

C1_Witness ==
    /\ op = "level_from_score"
    /\ args.score = 100
    /\ ret = "Very High"

---------------------------------------------------------------------------
\* The level the specification gives a score.
ClaimLevel(score) ==
    CASE score <= 1 -> "Low"
      [] score = 2 -> "Moderate"
      [] score = 3 -> "High"
      [] score >= 4 -> "Very High"

ConsistentRiskScore(rs) == rs.level = ClaimLevel(rs.score)

(* C2: every RiskScore combine_scores returns (asthma, heat, dehydration,  *)
(* overall) has the level the level classifier gives its score.            *)
C2_LevelsConsistent ==
    op = "combine_scores" =>
        /\ ConsistentRiskScore(ret.asthma_risk)
        /\ ConsistentRiskScore(ret.heat_risk)
        /\ ConsistentRiskScore(ret.dehydration_risk)
        /\ ConsistentRiskScore(ret.overall_risk)

\* an at-risk profile lifts air score 1 to asthma score 2, level "Moderate"
C2_Witness ==
    /\ op = "combine_scores"
    /\ args.air_score = 1
    /\ ret.asthma_risk = [level |-> "Moderate", score |-> 2]
    /\ ret.heat_risk.score = args.heat_score + 1

(* C3: compute_overall_risk returns the integer nearest to                 *)
(* 0.30*asthma + 0.35*heat + 0.35*dehydration, clamped to 1..4, with the   *)
(* level of that score; (2, 3, 3) gives score 3, level "High".             *)
C3_OverallRisk ==
    op = "compute_overall_risk" =>
        LET w20 == 6 * args.asthma_score + 7 * args.heat_score
                   + 7 * args.dehydration_score      \* 20 * weighted
        IN  /\ ret.score \in 1 .. 4
            /\ \E r \in -1 .. 2 * MaxScore :
                  /\ 20 * r - 10 <= w20
                  /\ w20 <= 20 * r + 10
                  /\ ret.score = Max(1, Min(r, 4))
            /\ ret.level = ClaimLevel(ret.score)
            /\ (args.asthma_score = 2 /\ args.heat_score = 3 /\ args.dehydration_score = 3)
                  => ret = [level |-> "High", score |-> 3]

C3_Witness ==
    /\ op = "compute_overall_risk"
    /\ args = [asthma_score |-> 2, heat_score |-> 3, dehydration_score |-> 3]
    /\ ret = [level |-> "High", score |-> 3]

(* C4: compute_dehydration_risk starts at 1, the highest crossed heat      *)
(* index threshold (27 -> 2, 32 -> 3, 38 -> 4) wins, then +1 for humidity  *)
(* >= 70 while the score is < 4, then +1 for a known age >= 65 while the   *)
(* score after the humidity bump is < 4; the result is in 1..4.            *)
C4_Dehydration ==
    op = "compute_dehydration_risk" =>
        LET crossed == {t \in {27, 32, 38} : RLe(FromInt(t), args.heat_index_c)}
            base == 1 + Cardinality(crossed)
            humid == RLe(FromInt(70), args.humidity)
            old == ~IsNone(args.age) /\ Val(args.age) >= 65
            afterHumidity == IF humid /\ base < 4 THEN base + 1 ELSE base
            afterAge == IF old /\ afterHumidity < 4 THEN afterHumidity + 1
                        ELSE afterHumidity
        IN  /\ ret.score = afterAge
            /\ ret.score \in 1 .. 4
            /\ ret.level = ClaimLevel(ret.score)
            /\ (humid /\ old /\ base \in {1, 2}) => ret.score = base + 2
            /\ (humid /\ old /\ base = 3) => ret.score = 4
            /\ (/\ args.temperature_c = FromInt(35)
                /\ args.humidity = FromInt(75)
                /\ args.heat_index_c = FromInt(33)
                /\ args.age = Some(70))
                  => ret = [level |-> "Very High", score |-> 4]

\* the age bump blocked: threshold score 3, humidity bump to 4
C4_Witness ==
    /\ op = "compute_dehydration_risk"
    /\ args = [temperature_c |-> FromInt(35), humidity |-> FromInt(75),
               heat_index_c |-> FromInt(33), age |-> Some(70)]
    /\ ret = [level |-> "Very High", score |-> 4]

(* C5: score_air_pollution returns min(5, base + [pm25 > 35] + [o3 > 100]) *)
(* with base 0,1,2,4,5 for aqi 1..5 and 0 for any other aqi; an absent     *)
(* pm25 or o3 adds nothing; the result is in 0..5.                         *)
C5_AirScore ==
    op = "score_air_pollution" =>
        LET base == IF args.aqi \in 1 .. 5 THEN <<0, 1, 2, 4, 5>>[args.aqi] ELSE 0
            pmBump == IF args.pm25 # None /\ RLt(FromInt(35), Val(args.pm25))
                      THEN 1 ELSE 0
            o3Bump == IF args.o3 # None /\ RLt(FromInt(100), Val(args.o3))
                      THEN 1 ELSE 0
        IN  /\ ret = Min(5, base + pmBump + o3Bump)
            /\ ret \in 0 .. 5
            /\ (args.aqi = 1 /\ pmBump = 0 /\ o3Bump = 0) => ret = 0
            /\ (args.aqi = 3 /\ pmBump = 0 /\ o3Bump = 0) => ret = 2

\* AQI 5 with PM2.5 50 and ozone 150: both bumps apply, capped at 5
C5_Witness ==
    /\ op = "score_air_pollution"
    /\ args = [aqi |-> 5, pm25 |-> Some(FromInt(50)), o3 |-> Some(FromInt(150))]
    /\ ret = 5

(* C6: with F = heat_index_c*9/5+32, score_heat returns 0 for F < 80, 2    *)
(* for 80 <= F < 90, 3 for 90 <= F < 103, 4 for 103 <= F < 125, 5 for      *)
(* F >= 125; never 1; a breakpoint belongs to the higher band; the score   *)
(* never decreases when the heat index increases (compared between inputs  *)
(* at most 1 C apart, which chains over the whole grid).                   *)
C6_HeatScore ==
    op = "score_heat" =>
        LET n == args.heat_index_c.num
            d == args.heat_index_c.den
            f5 == 9 * n + 160 * d          \* 5 * d * F
        IN  /\ (f5 < 400 * d) = (ret = 0)
            /\ (400 * d <= f5 /\ f5 < 450 * d) = (ret = 2)
            /\ (450 * d <= f5 /\ f5 < 515 * d) = (ret = 3)
            /\ (515 * d <= f5 /\ f5 < 625 * d) = (ret = 4)
            /\ (625 * d <= f5) = (ret = 5)
            /\ ret # 1
            /\ args.heat_index_c = R(266, 10) => ret = 0
            /\ args.heat_index_c = R(273, 10) => ret = 2
            /\ \A below \in HeatIndexFine :
                  (/\ RLe(below, args.heat_index_c)
                   /\ RLe(args.heat_index_c, RAdd(below, FromInt(1))))
                      => score_heat(below) <= ret

\* exactly 80 F (26 2/3 C) is in the band 80 <= F < 90
C6_Witness ==
    /\ op = "score_heat"
    /\ args.heat_index_c = R(240, 9)
    /\ ret = 2

\* some condition label contains the keyword, ignoring case
LabelHasKeyword(conditions) ==
    \E i \in 1 .. Len(conditions) :
        \E k \in {resp_keywords[j] : j \in 1 .. Len(resp_keywords)}
                 \cup {cardio_keywords[j] : j \in 1 .. Len(cardio_keywords)} :
            contains(lower(conditions[i]), k)

ClaimAtRisk(profile) ==
    /\ profile # None
    /\ \/ (Val(profile).age # None /\ Val(Val(profile).age) >= 65)
       \/ LabelHasKeyword(Val(profile).conditions)

(* C7: at_risk holds exactly when a profile is given and its age is known  *)
(* and >= 65 or some condition label contains a keyword, ignoring case;    *)
(* then asthma = min(5, air_score+1) and heat = min(5, heat_score+1),      *)
(* classified after the adjustment; otherwise both scores are unchanged.   *)
C7_ProfileSensitivity ==
    op = "combine_scores" =>
        IF ClaimAtRisk(args.profile)
        THEN /\ ret.asthma_risk.score = Min(5, args.air_score + 1)
             /\ ret.heat_risk.score = Min(5, args.heat_score + 1)
             /\ ret.asthma_risk.level = ClaimLevel(Min(5, args.air_score + 1))
             /\ ret.heat_risk.level = ClaimLevel(Min(5, args.heat_score + 1))
        ELSE /\ ret.asthma_risk.score = args.air_score
             /\ ret.heat_risk.score = args.heat_score

\* at risk by a mixed-case label alone ("Asthmatic"), age unknown
C7_Witness ==
    /\ op = "combine_scores"
    /\ args.profile = Some([age |-> None,
                            conditions |-> << <<"A","s","t","h","m","a","t","i","c">> >>])
    /\ args.air_score = 5 /\ ret.asthma_risk.score = 5
    /\ args.heat_score = 2 /\ ret.heat_risk.score = 3

\* the call of the state, with the profile's condition labels removed
WithoutConditions ==
    combine_scores(args.air_score, args.heat_score, args.temperature_c,
                   args.humidity, args.heat_index_c,
                   IF args.profile = None THEN None
                   ELSE Some([age |-> Val(args.profile).age, conditions |-> <<>>]))

(* C8: the condition labels never change the dehydration score: every list *)
(* of conditions gives the dehydration_risk of the empty list, and the     *)
(* overall risk is that of the adjusted asthma and heat scores and this    *)
(* dehydration score.                                                      *)
C8_ConditionsFrame ==
    op = "combine_scores" =>
        /\ ret.dehydration_risk = WithoutConditions.dehydration_risk
        /\ ret.overall_risk =
              compute_overall_risk(ret.asthma_risk.score, ret.heat_risk.score,
                                   WithoutConditions.dehydration_risk.score)

\* at risk by the labels alone: asthma lifted, dehydration as without labels
C8_Witness ==
    /\ op = "combine_scores"
    /\ args.profile = Some([age |-> Some(64), conditions |-> << <<"H","E","A","R","T">> >>])
    /\ args.humidity = FromInt(60) /\ args.heat_index_c = FromInt(27)
    /\ ret.asthma_risk.score = args.air_score + 1
    /\ ret.dehydration_risk.score = 2
    /\ WithoutConditions.asthma_risk.score = args.air_score

\* the sum of the three percentages of a factor list, in tenths of a percent
SumTenths(factors) ==
    LET t(i) == RMul(factors[i].percentage, FromInt(10))
    IN  t(1).num + t(2).num + t(3).num

AllTenths(factors) ==
    \A i \in 1 .. 3 : RMul(factors[i].percentage, FromInt(10)).den = 1

SomeNonzero(signals) == \E i \in 1 .. 3 : ~RIsZero(signals[i])

SumNear100(signals, factors) ==
    SomeNonzero(signals) =>
        /\ AllTenths(factors)
        /\ SumTenths(factors) \in 999 .. 1001

C10_NoErrors ==
    /\ exc = None
    /\ op = "compute_heat_index_c" =>
          LET T == (9 * args.temp_c.num) \div (5 * args.temp_c.den) + 32
              R_ == args.humidity.num
          IN  (T >= 80 /\ R_ < 13 /\ T <= 112) => 17 - Abs(T - 95) >= 0
    /\ op = "build_contributing_factors" =>
          /\ ~RIsZero(total_of(asthma_signals(args.raw_air, args.profile)))
          /\ ~RIsZero(total_of(heat_signals(args.raw_weather, args.profile)))
          /\ ~RIsZero(total_of(dehydration_signals(args.raw_weather, args.profile)))

\* the root taken at the edge of the band: T = 112 F, humidity 12, argument 0
C10_Witness ==
    /\ op = "compute_heat_index_c"
    /\ args.temp_c = R(5 * (112 - 32), 9)
    /\ args.humidity = FromInt(12)
    /\ sqrt_argument(112) = FromInt(0)
    /\ exc = None
    /\ ret = DScale(5, DSub(rothfusz(112, 12), DFromInt(32)))

\* every dehydration signal zero: the total is replaced by 1.0
C10_ZeroTotalWitness ==
    /\ op = "build_contributing_factors"
    /\ \A i \in 1 .. 3 : RIsZero(dehydration_signals(args.raw_weather, args.profile)[i])
    /\ exc = None
    /\ \A i \in 1 .. 3 : ret.dehydration[i].percentage = FromInt(0)

---------------------------------------------------------------------------
\* the air temperature of the call in whole degrees Fahrenheit
CallT == (9 * args.temp_c.num) \div (5 * args.temp_c.den) + 32
CallR == args.humidity.num

C13_MonotonicInHumidity ==
    (op = "compute_heat_index_c" /\ exc = None /\ CallT >= 80
        /\ 13 <= CallR /\ CallR <= 85) =>
        \A r \in 13 .. CallR :
            DLe(compute_heat_index_c(args.temp_c, FromInt(r)), ret)

\* 95 F: the heat index at humidity 50 is above the one at humidity 49
C13_Witness ==
    /\ op = "compute_heat_index_c"
    /\ CallT = 95 /\ CallR = 50
    /\ exc = None
    /\ DLt(compute_heat_index_c(args.temp_c, FromInt(49)), ret)

---------------------------------------------------------------------------
\* the three percentages of a dimension of the returned breakdown
Percentages(dimension) == [i \in 1 .. 3 |-> dimension[i].percentage]

\* what the claim says of one dimension with the given signals
ClaimPercentages(signals, dimension) ==
    LET sum == RAdd(RAdd(signals[1], signals[2]), signals[3])
    IN  IF \A i \in 1 .. 3 : RIsZero(signals[i])
        THEN /\ total_of(signals) = FromInt(1)
             /\ \A i \in 1 .. 3 : dimension[i].percentage = FromInt(0)
        ELSE \A i \in 1 .. 3 :
                LET tenths == RMul(dimension[i].percentage, FromInt(10))
                    exact == RMul(RDiv(signals[i], sum), FromInt(1000))
                IN  /\ tenths.den = 1
                    /\ RLe(RSub(tenths, exact), R(1, 2))
                    /\ RLe(RSub(exact, tenths), R(1, 2))

\* heat index <= 27, humidity <= 50 and age <= 40 or absent
ClaimCoolDryYoung ==
    /\ RLe(args.raw_weather.heat_index_c, FromInt(27))
    /\ RLe(args.raw_weather.humidity, FromInt(50))
    /\ \/ IsNone(args.profile)
       \/ IsNone(Val(args.profile).age)
       \/ Val(Val(args.profile).age) <= 40

(* C15: in build_contributing_factors a dimension whose signals are all    *)
(* zero is divided by 1.0 and gets three percentages of 0.0 (dehydration   *)
(* at heat index <= 27, humidity <= 50, age <= 40 or absent); any other    *)
(* dimension gets signal / sum * 100 rounded to one decimal.               *)
C15_ZeroSumAndRounding ==
    (op = "build_contributing_factors" /\ exc = None) =>
        /\ ClaimPercentages(asthma_signals(args.raw_air, args.profile), ret.asthma)
        /\ ClaimPercentages(heat_signals(args.raw_weather, args.profile), ret.heat)
        /\ ClaimPercentages(dehydration_signals(args.raw_weather, args.profile),
                            ret.dehydration)
        /\ ClaimCoolDryYoung =>
              Percentages(ret.dehydration) = <<FromInt(0), FromInt(0), FromInt(0)>>

\* no profile, cool and dry: dehydration is all 0.0 while asthma is
\* 0.2 / 0.7333 and 0.3333 / 0.7333 rounded to 27.3 and 45.5
C15_Witness ==
    /\ op = "build_contributing_factors"
    /\ IsNone(args.profile)
    /\ ClaimCoolDryYoung
    /\ Percentages(ret.dehydration) = <<FromInt(0), FromInt(0), FromInt(0)>>
    /\ args.raw_air.pm25 = Some(FromInt(12))
    /\ args.raw_air.o3 = Some(FromInt(50))
    /\ Percentages(ret.asthma) = <<R(273, 10), R(455, 10), R(273, 10)>>

---------------------------------------------------------------------------
\* twenty times the weighted value of the three component scores returned
Weighted20 ==
    6 * ret.asthma_risk.score + 7 * ret.heat_risk.score + 7 * ret.dehydration_risk.score

(* C16: the component scores combine_scores hands to compute_overall_risk  *)
(* (asthma and heat in 0..5, dehydration in 1..4) never weigh to an        *)
(* integer plus one half, so the overall score is also the half-up         *)
(* rounding of the weighted value, clamped to 1..4.                        *)
C16_NoRoundingTie ==
    (op = "combine_scores" /\ exc = None) =>
        /\ ret.asthma_risk.score \in 0 .. 5
        /\ ret.heat_risk.score \in 0 .. 5
        /\ ret.dehydration_risk.score \in 1 .. 4
        /\ Weighted20 % 20 # 10
        /\ ret.overall_risk.score = Max(1, Min((Weighted20 + 10) \div 20, 4))

\* the weighted values nearest to a tie: x.45 and x.55
C16_Witness ==
    /\ op = "combine_scores"
    /\ exc = None
    /\ Weighted20 % 20 \in {9, 11}
    /\ ret.overall_risk.score = (Weighted20 + 10) \div 20

---------------------------------------------------------------------------
\* the scores of the call had no profile been supplied
WithoutProfile ==
    combine_scores(args.air_score, args.heat_score, args.temperature_c,
                   args.humidity, args.heat_index_c, None)

(* C17: a profile never lowers a score: each of the four scores of         *)
(* combine_scores is at least the score returned for the same readings     *)
(* without a profile, and compute_overall_risk never decreases when one    *)
(* of its three component scores increases.                                *)
C17_ProfileNeverLowers ==
    /\ (op = "combine_scores" /\ exc = None) =>
          /\ ret.asthma_risk.score >= WithoutProfile.asthma_risk.score
          /\ ret.heat_risk.score >= WithoutProfile.heat_risk.score
          /\ ret.dehydration_risk.score >= WithoutProfile.dehydration_risk.score
          /\ ret.overall_risk.score >= WithoutProfile.overall_risk.score
    /\ op = "compute_overall_risk" =>
          \A a \in ScoreInputs, h \in ScoreInputs, d \in ScoreInputs :
              (/\ a >= args.asthma_score
               /\ h >= args.heat_score
               /\ d >= args.dehydration_score) =>
                  compute_overall_risk(a, h, d).score >= ret.score

\* an at-risk profile that raises the air, heat and overall scores
C17_Witness ==
    /\ op = "combine_scores"
    /\ exc = None
    /\ ~IsNone(args.profile)
    /\ ret.asthma_risk.score > WithoutProfile.asthma_risk.score
    /\ ret.heat_risk.score > WithoutProfile.heat_risk.score
    /\ ret.overall_risk.score > WithoutProfile.overall_risk.score

---------------------------------------------------------------------------
\* the two functions applied to what request r asked
ScoresOf(r) ==
    combine_scores(inp[r].air_score, inp[r].heat_score,
                   inp[r].raw_weather.temperature_c, inp[r].raw_weather.humidity,
                   inp[r].raw_weather.heat_index_c, inp[r].profile)
FactorsOf(r, scores) ==
    build_contributing_factors(inp[r].raw_weather, inp[r].raw_air, inp[r].profile, scores)

ComponentScores(scores) ==
    <<scores.asthma_risk.score, scores.heat_risk.score, scores.dehydration_risk.score>>

(* C11: the engine keeps no state across invocations: whatever the other   *)
(* requests did in between, a finished request holds the Scores and the    *)
(* factor breakdown of its own inputs, two finished requests with the      *)
(* same inputs hold identical outputs, and two with the same three         *)
(* component scores hold the same overall score.                           *)
C11_NoStateAcrossInvocations ==
    \A r \in Requests :
        pc[r] = "done" =>
            /\ out[r].scores = ScoresOf(r)
            /\ out[r].contributing_factors = Some(FactorsOf(r, out[r].scores))
            /\ \A q \in Requests :
                  pc[q] = "done" =>
                      /\ inp[q] = inp[r] => out[q] = out[r]
                      /\ ComponentScores(out[q].scores) = ComponentScores(out[r].scores)
                            => out[q].scores.overall_risk = out[r].scores.overall_risk

\* two finished requests with the same inputs and an at-risk profile hold the
\* same adjusted Scores and the same breakdown
C11_Witness ==
    /\ pc[1] = "done" /\ pc[2] = "done"
    /\ inp[1] = inp[2]
    /\ ~IsNone(inp[1].profile)
    /\ inp[1].air_score = 2
    /\ out[1] = out[2]
    /\ out[1].scores.asthma_risk.score = 3
    /\ ~IsNone(out[1].contributing_factors)

---------------------------------------------------------------------------
\* Scores a caller could pass to build_contributing_factors
ScoresSamples ==
    {combine_scores(a, a, FromInt(30), FromInt(60), FromInt(20), None) :
        a \in {0, MaxScore}}

(* C14: the factor breakdown is presentation-only: the step that builds it *)
(* produces the same breakdown for every value of the scores argument,     *)
(* and leaves the Scores that combine_scores returned as they were.        *)
C14_FactorsPresentationOnly ==
    [][\A r \in Requests :
          (pc[r] = "factors" /\ pc'[r] = "done") =>
              /\ out'[r].scores = out[r].scores
              /\ \A s \in ScoresSamples :
                    out'[r].contributing_factors = Some(FactorsOf(r, s))]_vars

\* a finished request with asthma score 3 whose breakdown is the one of scores 0 and 5
C14_Witness ==
    /\ pc[1] = "done"
    /\ out[1].scores.asthma_risk.score = 3
    /\ \A s \in ScoresSamples :
          /\ s # out[1].scores
          /\ out[1].contributing_factors = Some(FactorsOf(1, s))

=============================================================================
